---- MODULE Spec2Model ----
(***************************************************************************)
(* Model of web/src/components/command-menu.tsx: the CommandMenu React     *)
(* component and its search function getFilteredIcons.                     *)
(*                                                                         *)
(* Numbers.  fuzzySearch returns a float in [0,1]; it is modelled in       *)
(* hundredths (0..100).  The weights 2.0, 1.8 and 1 are modelled in tenths *)
(* (20, 18, 10), so a weighted score is an integer number of thousandths   *)
(* and the threshold 0.3 is 300.  The code only multiplies a value by a    *)
(* positive constant, takes maxima and compares, so the exact products     *)
(* keep every comparison the floats make, up to the rounding of a product. *)
(*                                                                         *)
(* Strings.  A string is a record [sim, id]: sim is the similarity class   *)
(* that decides what fuzzySearch returns for it, id tells apart strings of *)
(* the same class (icon names are unique keys).                            *)
(***************************************************************************)
EXTENDS Integers, Sequences, FiniteSets, TLC

VARIABLES
    icons,            \* prop icons (line 11)
    externalOpen,     \* prop open: "undefined", TRUE or FALSE (line 20)
    hasOnOpenChange,  \* prop onOpenChange is supplied (line 21)
    internalOpen,     \* useState(false) (line 26)
    query,            \* useState("") (line 27)
    scoredIcons,      \* the local scoredIcons of the last render (line 69)
    filteredIcons,    \* the result of the last render (line 45)
    pushes,           \* routes handed to router.push, oldest first (line 101)
    requested,        \* values handed to externalOnOpenChange (line 37)
    lastEvent,        \* history: the event handled last
    memo              \* history: the first result rendered for each query

vars == << icons, externalOpen, hasOnOpenChange, internalOpen, query,
           scoredIcons, filteredIcons, pushes, requested, lastEvent, memo >>

----------------------------------------------------------------------------
(* Program constants *)

EmptyQueryLimit == 8
MaxResults == 20
NameWeight == 20
AliasWeight == 18
CategoryWeight == 10
MinScore == 300

(* Bounds of the model *)

MaxAliases == 2
MaxCategories == 1
MaxShort == 3
MaxBase == 2
MaxDialogIcons == 1
MaxPushes == 1

----------------------------------------------------------------------------
(* Strings and the fuzzy-similarity primitive *)

Queries == {"", "git", "zzz"}

\* fuzzySearch(text, "git") for the six similarity classes, in hundredths.
FuzzyTable == << 0, 15, 30, 50, 90, 100 >>

SimClasses == DOMAIN FuzzyTable

Str(sim, id) == [sim |-> sim, id |-> id]

\* The external primitive: a deterministic function of (text, query) with
\* values in [0,1].  Against "zzz" the classes score in the opposite order.
fuzzySearch(text, q) ==
    IF q = "git" THEN FuzzyTable[text.sim]
                 ELSE FuzzyTable[Len(FuzzyTable) + 1 - text.sim]

----------------------------------------------------------------------------
(* JavaScript helpers *)

Min(a, b) == IF a <= b THEN a ELSE b

\* Math.max(a, b)
Max2(a, b) == IF a >= b THEN a ELSE b

\* Math.max(...xs) for a non-empty xs
RECURSIVE MathMax(_)
MathMax(xs) ==
    IF Len(xs) = 1 THEN xs[1] ELSE Max2(xs[1], MathMax(Tail(xs)))

\* Mutant: the slice keeps everything.
SliceNone(xs, n) == xs

\* Array.prototype.slice(0, n)
SliceFirst(xs, n) == SubSeq(xs, 1, Min(n, Len(xs)))

\* Mutant: the comparator sorts ascending.
CompareScoreAscending(a, b) == a.score - b.score

\* The comparator (a, b) => b.score - a.score
CompareScore(a, b) == b.score - a.score

\* One step of a stable sort: x goes behind every element that the comparator
\* does not put after it.
RECURSIVE InsertSorted(_, _)
InsertSorted(sorted, x) ==
    IF sorted = << >> THEN << x >>
    ELSE IF CompareScore(Head(sorted), x) <= 0
         THEN << Head(sorted) >> \o InsertSorted(Tail(sorted), x)
         ELSE << x >> \o sorted

\* Array.prototype.sort with CompareScore (stable, ES2019)
RECURSIVE SortFrom(_, _)
SortFrom(done, rest) ==
    IF rest = << >> THEN done
    ELSE SortFrom(InsertSorted(done, Head(rest)), Tail(rest))

Sort(xs) == SortFrom(<< >>, xs)

----------------------------------------------------------------------------
(* getFilteredIcons, lines 62-97 *)

NameScore(icon, q) == fuzzySearch(icon.name, q) * NameWeight

\* Mutant: only the first alias is scored.
AliasScoreFirstAlias(icon, q) ==
    IF Len(icon.data.aliases) > 0
    THEN fuzzySearch(icon.data.aliases[1], q) * AliasWeight
    ELSE 0

\* Mutant: the alias weight is forgotten.
AliasScoreUnweighted(icon, q) ==
    IF Len(icon.data.aliases) > 0
    THEN MathMax([i \in 1..Len(icon.data.aliases) |->
                     fuzzySearch(icon.data.aliases[i], q)]) * CategoryWeight
    ELSE 0

AliasScore(icon, q) ==
    IF Len(icon.data.aliases) > 0
    THEN MathMax([i \in 1..Len(icon.data.aliases) |->
                     fuzzySearch(icon.data.aliases[i], q)]) * AliasWeight
    ELSE 0

CategoryScore(icon, q) ==
    IF Len(icon.data.categories) > 0
    THEN MathMax([i \in 1..Len(icon.data.categories) |->
                     fuzzySearch(icon.data.categories[i], q)]) * CategoryWeight
    ELSE 0

Score(icon, q) ==
    Max2(NameScore(icon, q), Max2(AliasScore(icon, q), CategoryScore(icon, q)))

\* Mutant: the alias is tested before the name.
MatchedFieldAliasFirst(icon, q) ==
    IF Score(icon, q) = AliasScore(icon, q) THEN "alias"
    ELSE IF Score(icon, q) = NameScore(icon, q) THEN "name"
    ELSE "category"

MatchedField(icon, q) ==
    IF Score(icon, q) = NameScore(icon, q) THEN "name"
    ELSE IF Score(icon, q) = AliasScore(icon, q) THEN "alias"
    ELSE "category"

ScoreIcon(icon, q) ==
    [icon |-> icon, score |-> Score(icon, q), matchedField |-> MatchedField(icon, q)]

ScoredIcons(iconList, q) ==
    [i \in 1..Len(iconList) |-> ScoreIcon(iconList[i], q)]

\* Mutant: the threshold is not strict.
AtLeastMinScore(item) == item.score >= MinScore

AboveMinScore(item) == item.score > MinScore

\* scoredIcons.filter((item) => item.score > 0.3)
RECURSIVE FilterMinScore(_)
FilterMinScore(xs) ==
    IF xs = << >> THEN << >>
    ELSE IF AboveMinScore(Head(xs))
         THEN << Head(xs) >> \o FilterMinScore(Tail(xs))
         ELSE FilterMinScore(Tail(xs))

\* .map((item) => item.icon)
MapIcon(items) == [i \in 1..Len(items) |-> items[i].icon]

\* Mutant: the empty query is cut at the limit of the non-empty one.
getFilteredIconsEmptyTwenty(iconList, q) ==
    IF q = ""
    THEN SliceFirst(iconList, MaxResults)
    ELSE MapIcon(SliceFirst(Sort(FilterMinScore(ScoredIcons(iconList, q))),
                            MaxResults))

\* Mutant: the list is cut before it is sorted.
getFilteredIconsSliceBeforeSort(iconList, q) ==
    IF q = ""
    THEN SliceFirst(iconList, EmptyQueryLimit)
    ELSE MapIcon(Sort(SliceFirst(FilterMinScore(ScoredIcons(iconList, q)),
                                 MaxResults)))

\* Mutant: the search is skipped while the uncontrolled dialog is closed.
getFilteredIconsWhileOpen(iconList, q) ==
    IF ~internalOpen THEN << >>
    ELSE IF q = ""
    THEN SliceFirst(iconList, EmptyQueryLimit)
    ELSE MapIcon(SliceFirst(Sort(FilterMinScore(ScoredIcons(iconList, q))),
                            MaxResults))

getFilteredIcons(iconList, q) ==
    IF q = ""
    THEN SliceFirst(iconList, EmptyQueryLimit)
    ELSE MapIcon(SliceFirst(Sort(FilterMinScore(ScoredIcons(iconList, q))),
                            MaxResults))

\* The local scoredIcons: not computed on the empty query.
LocalScoredIcons(iconList, q) ==
    IF q = "" THEN << >> ELSE ScoredIcons(iconList, q)

----------------------------------------------------------------------------
(* The component's state and callbacks, lines 24-60 and 99-106 *)

\* line 31
isOpen ==
    IF externalOpen # "undefined" THEN externalOpen = "true" ELSE internalOpen

BoolStr(b) == IF b THEN "true" ELSE "false"

\* setIsOpen(value), lines 34-43
setIsOpen(value) ==
    IF hasOnOpenChange
    THEN /\ requested' = BoolStr(value)
         /\ internalOpen' = internalOpen
    ELSE /\ internalOpen' = value
         /\ requested' = requested

\* Mutant: "/" is a shortcut whatever has the focus.
IsShortcutAnyFocus(e) ==
    \/ e.key = "k" /\ (e.metaKey \/ e.ctrlKey)
    \/ e.key = "/"

\* The shortcut test of handleKeyDown, lines 49-52
IsShortcut(e) ==
    \/ e.key = "k" /\ (e.metaKey \/ e.ctrlKey)
    \/ e.key = "/" /\ e.activeTag # "INPUT" /\ e.activeTag # "TEXTAREA"

\* `/icons/${name}`, line 101
IconRoute(name) == << "icons", name >>

\* The render that follows a state change: line 45 runs again with the query
\* the change leaves (the icons never change).
Render(q) ==
    /\ scoredIcons' = LocalScoredIcons(icons, q)
    /\ filteredIcons' = getFilteredIcons(icons, q)
    /\ memo' = IF query' \in DOMAIN memo THEN memo
               ELSE memo @@ (query' :> filteredIcons')

KeyEvents ==
    [key : {"k", "/", "a"}, metaKey : BOOLEAN, ctrlKey : BOOLEAN,
     activeTag : {"INPUT", "TEXTAREA", "BODY"}]

\* handleKeyDown, lines 48-56
HandleKeyDown(e) ==
    /\ IF IsShortcut(e)
       THEN setIsOpen(~isOpen)
       ELSE UNCHANGED << internalOpen, requested >>
    /\ lastEvent' = [type |-> "keydown", e |-> e]
    /\ UNCHANGED << icons, externalOpen, hasOnOpenChange, query, pushes >>
    /\ Render(query)

\* handleSelect, lines 99-102, called by a rendered CommandItem (line 123)
HandleSelect(name) ==
    /\ isOpen
    /\ \E i \in DOMAIN filteredIcons : filteredIcons[i].name = name
    /\ Len(pushes) < MaxPushes
    /\ setIsOpen(FALSE)
    /\ pushes' = Append(pushes, IconRoute(name))
    /\ lastEvent' = [type |-> "select", name |-> name]
    /\ UNCHANGED << icons, externalOpen, hasOnOpenChange, query >>
    /\ Render(query)

\* onValueChange={setQuery}, line 106: the input of the open dialog changes
SetQuery(q) ==
    /\ isOpen
    /\ q # query
    /\ query' = q
    /\ lastEvent' = [type |-> "input", q |-> q]
    /\ UNCHANGED << icons, externalOpen, hasOnOpenChange, internalOpen,
                    pushes, requested >>
    /\ Render(q)

\* onOpenChange={setIsOpen}, line 105: the open dialog asks to be dismissed
DialogOnOpenChange ==
    /\ isOpen
    /\ setIsOpen(FALSE)
    /\ lastEvent' = [type |-> "dismiss"]
    /\ UNCHANGED << icons, externalOpen, hasOnOpenChange, query, pushes >>
    /\ Render(query)

\* The parent of a controlled component renders it with another open prop.
ParentSetOpen(v) ==
    /\ externalOpen # "undefined"
    /\ externalOpen # v
    /\ externalOpen' = v
    /\ lastEvent' = [type |-> "props"]
    /\ UNCHANGED << icons, hasOnOpenChange, internalOpen, query, pushes,
                    requested >>
    /\ Render(query)

----------------------------------------------------------------------------
(* Inputs *)

SeqsUpTo(S, n) == UNION { [1..k -> S] : k \in 0..n }

FieldStrings == { Str(c, 0) : c \in SimClasses }

Icon(nameSim, aliases, categories) ==
    [name |-> Str(nameSim, 0),
     data |-> [aliases |-> aliases, categories |-> categories]]

\* Names are unique keys: the i-th record's name gets id i.
Rekey(list) == [i \in DOMAIN list |-> [list[i] EXCEPT !.name.id = i]]

\* Every record with up to MaxAliases aliases and MaxCategories categories
AllIcons ==
    { Icon(n, a, c) : n \in SimClasses,
                      a \in SeqsUpTo(FieldStrings, MaxAliases),
                      c \in SeqsUpTo(FieldStrings, MaxCategories) }

\* The records of the longer lists: a name of every class without aliases or
\* categories, one matched by an alias and one matched by a category.
ListIcons ==
    { Icon(n, << >>, << >>) : n \in SimClasses }
    \cup { Icon(1, << Str(1, 0) >>, << >>), Icon(6, << Str(6, 0) >>, << >>),
           Icon(1, << >>, << Str(2, 0) >>), Icon(6, << >>, << Str(5, 0) >>) }

Repeat(base, n) == [i \in 1..n |-> base[((i - 1) % Len(base)) + 1]]

LongLengths ==
    { EmptyQueryLimit - 1, EmptyQueryLimit, EmptyQueryLimit + 1,
      MaxResults - 1, MaxResults, MaxResults + 1, MaxResults + 2 }

SearchLists ==
    { Rekey(l) : l \in
        { << i >> : i \in AllIcons }
        \cup SeqsUpTo(ListIcons, MaxShort)
        \cup { Repeat(b, n) : b \in SeqsUpTo(ListIcons, MaxBase) \ {<< >>},
                              n \in LongLengths } }

DialogIcons == { Icon(6, << >>, << >>), Icon(1, << >>, << >>) }

DialogLists == { Rekey(l) : l \in SeqsUpTo(DialogIcons, MaxDialogIcons) }

----------------------------------------------------------------------------
(* Specifications *)

\* The component after construction (lines 26-27) and its first render.
InitWith(iconList, extOpen, onChange, intOpen, ev) ==
    /\ icons = iconList
    /\ externalOpen = extOpen
    /\ hasOnOpenChange = onChange
    /\ internalOpen = intOpen
    /\ query = ""
    /\ scoredIcons = LocalScoredIcons(iconList, "")
    /\ filteredIcons = getFilteredIcons(iconList, "")
    /\ pushes = << >>
    /\ requested = "none"
    /\ lastEvent = ev
    /\ memo = ("" :> getFilteredIcons(iconList, ""))

Init ==
    \E l \in DialogLists, x \in {"undefined", "true", "false"}, c \in BOOLEAN :
        InitWith(l, x, c, FALSE, [type |-> "mount"])

Next ==
    \/ \E e \in KeyEvents : HandleKeyDown(e)
    \/ \E i \in DOMAIN filteredIcons : HandleSelect(filteredIcons[i].name)
    \/ \E q \in Queries : SetQuery(q)
    \/ DialogOnOpenChange
    \/ \E v \in {"true", "false"} : ParentSetOpen(v)

Spec == Init /\ [][Next]_vars

\* The search on its own: the uncontrolled dialog has been opened with Ctrl+K
\* and the user types.
InitSearch ==
    \E l \in SearchLists :
        InitWith(l, "undefined", FALSE, TRUE,
                 [type |-> "keydown",
                  e |-> [key |-> "k", metaKey |-> FALSE, ctrlKey |-> TRUE,
                         activeTag |-> "BODY"]])

NextSearch == \E q \in Queries : SetQuery(q)

SpecSearch == InitSearch /\ [][NextSearch]_vars

----------------------------------------------------------------------------
(* What the claims speak of, stated without the operators of the search *)

Uncontrolled == externalOpen = "undefined" /\ ~hasOnOpenChange

Searching == query # ""

\* The position of a record in the input list (names are unique).
Pos(icon) == CHOOSE i \in DOMAIN icons : icons[i] = icon

Returned(icon) == \E k \in DOMAIN filteredIcons : filteredIcons[k] = icon

Greatest(S) == CHOOSE m \in S : \A v \in S : v <= m

\* max over the strings of fuzzy(string, query), or 0 if there are none
FuzzyMax(strings, q) ==
    IF strings = << >> THEN 0
    ELSE Greatest({ fuzzySearch(strings[i], q) : i \in DOMAIN strings })

WName(icon) == 20 * fuzzySearch(icon.name, query)
WAlias(icon) == 18 * FuzzyMax(icon.data.aliases, query)
WCategory(icon) == 10 * FuzzyMax(icon.data.categories, query)
Weighted(icon) == Greatest({ WName(icon), WAlias(icon), WCategory(icon) })

Passing == { i \in DOMAIN icons : Weighted(icons[i]) > 300 }

ExactAlias(icon) ==
    \E k \in DOMAIN icon.data.aliases : fuzzySearch(icon.data.aliases[k], query) = 100

\* The records that rank ahead of the i-th: a higher score, or the same score
\* and an earlier place in the input.
Ahead(i) ==
    { j \in DOMAIN icons :
        \/ Weighted(icons[j]) > Weighted(icons[i])
        \/ Weighted(icons[j]) = Weighted(icons[i]) /\ j < i }

----------------------------------------------------------------------------
(* Claims *)

\* C1: on the empty query the result is exactly the first min(8, length)
\* records of the input, in input order, and nothing is scored.
C1_EmptyQueryFirstEight ==
    query = "" =>
        /\ Len(filteredIcons) = (IF Len(icons) < 8 THEN Len(icons) ELSE 8)
        /\ \A i \in DOMAIN filteredIcons : filteredIcons[i] = icons[i]
        /\ scoredIcons = << >>

\* The user typed and cleared the query again, over a list of more than 8.
C1_Witness ==
    /\ query = ""
    /\ lastEvent.type = "input"
    /\ Len(icons) > 8
    /\ Len(filteredIcons) = 8

\* C2: the result has at most 20 elements, and at most 8 on the empty query.
C2_LengthCaps ==
    /\ Len(filteredIcons) <= 20
    /\ query = "" => Len(filteredIcons) <= 8

\* More than 20 records pass the threshold and 20 are returned.
C2_Witness ==
    /\ Searching
    /\ Cardinality(Passing) > 20
    /\ Len(filteredIcons) = 20

\* C3: on a non-empty query every returned record has a weighted score
\* strictly above 0.3; when no record scores above 0.3 (or there is no
\* record) the result is the empty list.
C3_ThresholdStrict ==
    Searching =>
        /\ \A k \in DOMAIN filteredIcons : Weighted(filteredIcons[k]) > 300
        /\ (\A i \in DOMAIN icons : Weighted(icons[i]) <= 300)
              => filteredIcons = << >>

\* A record scores exactly 0.3 and is left out while another is returned.
C3_Witness ==
    /\ Searching
    /\ filteredIcons # << >>
    /\ \E i \in DOMAIN icons :
          Weighted(icons[i]) = 300 /\ ~Returned(icons[i])

\* C4: on a non-empty query the result is in non-increasing order of score
\* and records of equal score keep their input order.
C4_SortedStable ==
    Searching =>
        \A k, l \in DOMAIN filteredIcons :
            k < l =>
                /\ Weighted(filteredIcons[k]) >= Weighted(filteredIcons[l])
                /\ Weighted(filteredIcons[k]) = Weighted(filteredIcons[l])
                      => Pos(filteredIcons[k]) < Pos(filteredIcons[l])

\* The sort moved a later record in front of an earlier one, and two
\* returned records tie.
C4_Witness ==
    /\ Searching
    /\ \E k, l \in DOMAIN filteredIcons :
          k < l /\ Pos(filteredIcons[k]) > Pos(filteredIcons[l])
    /\ \E k, l \in DOMAIN filteredIcons :
          k < l /\ Weighted(filteredIcons[k]) = Weighted(filteredIcons[l])

\* C5: on a non-empty query the score of every record is the greatest of
\* 2.0 x fuzzy(name), 1.8 x the greatest fuzzy(alias) (0 without aliases) and
\* the greatest fuzzy(category) (0 without categories), and lies in [0, 2.0].
C5_ScoreFormulaAndRange ==
    Searching =>
        /\ Len(scoredIcons) = Len(icons)
        /\ \A i \in DOMAIN scoredIcons :
              /\ scoredIcons[i].icon = icons[i]
              /\ scoredIcons[i].score = Weighted(icons[i])
              /\ scoredIcons[i].score >= 0
              /\ scoredIcons[i].score <= 2000

\* A record whose second alias is the best of its fields, without categories.
C5_Witness ==
    /\ Searching
    /\ \E i \in DOMAIN scoredIcons :
          /\ Len(icons[i].data.aliases) = 2
          /\ icons[i].data.categories = << >>
          /\ fuzzySearch(icons[i].data.aliases[2], query)
                > fuzzySearch(icons[i].data.aliases[1], query)
          /\ scoredIcons[i].score = WAlias(icons[i])
          /\ WAlias(icons[i]) > WName(icons[i])

\* C6: matchedField is Name whenever nameScore is the maximum, Alias exactly
\* when aliasScore is the maximum and nameScore is strictly smaller, and
\* Category exactly when categoryScore is strictly greater than both others.
C6_MatchedFieldTieBreak ==
    Searching =>
        \A i \in DOMAIN scoredIcons :
            LET n == WName(icons[i])
                a == WAlias(icons[i])
                c == WCategory(icons[i])
                m == Weighted(icons[i])
                f == scoredIcons[i].matchedField
            IN  /\ f \in {"name", "alias", "category"}
                /\ n = m => f = "name"
                /\ f = "alias" <=> (a = m /\ n < m)
                /\ f = "category" <=> (c > n /\ c > a)

\* aliasScore and categoryScore tie above nameScore: Alias wins.
C6_Witness ==
    /\ Searching
    /\ \E i \in DOMAIN scoredIcons :
          /\ WAlias(icons[i]) = WCategory(icons[i])
          /\ WName(icons[i]) < WAlias(icons[i])
          /\ scoredIcons[i].matchedField = "alias"

\* C7 as stated: a record one of whose aliases the query matches exactly has
\* matchedField Alias and is in the result.
C7_ExactAliasAlwaysAlias ==
    Searching =>
        \A i \in DOMAIN scoredIcons :
            ExactAlias(icons[i]) =>
                /\ scoredIcons[i].matchedField = "alias"
                /\ Returned(icons[i])

\* C7 amended: such a record has matchedField Alias when 2.0 x fuzzy(name) is
\* below 1.8 and Name otherwise, and it is in the result unless at least 20
\* records rank ahead of it.
C7_ExactAliasAmended ==
    Searching =>
        \A i \in DOMAIN scoredIcons :
            ExactAlias(icons[i]) =>
                /\ scoredIcons[i].score >= 1800
                /\ WName(icons[i]) < 1800 => scoredIcons[i].matchedField = "alias"
                /\ WName(icons[i]) >= 1800 => scoredIcons[i].matchedField = "name"
                /\ Returned(icons[i]) <=> Cardinality(Ahead(i)) < 20

\* An exact alias match of a record whose name scores lower: Alias, returned.
C7_Witness ==
    /\ Searching
    /\ \E i \in DOMAIN scoredIcons :
          /\ ExactAlias(icons[i])
          /\ WName(icons[i]) < 1800
          /\ scoredIcons[i].matchedField = "alias"
          /\ Returned(icons[i])

C9_TopTwentyOfPassing ==
    Searching =>
        /\ Len(filteredIcons) =
              (IF Cardinality(Passing) < 20 THEN Cardinality(Passing) ELSE 20)
        /\ \A k \in DOMAIN filteredIcons :
              \E i \in Passing : icons[i] = filteredIcons[k]
        /\ \A k, l \in DOMAIN filteredIcons :
              k # l => filteredIcons[k] # filteredIcons[l]
        /\ \A i \in Passing :
              ~Returned(icons[i]) =>
                  \A k \in DOMAIN filteredIcons :
                      Weighted(filteredIcons[k]) >= Weighted(icons[i])

\* More than 20 records qualify, with different scores, and one is omitted.
C9_Witness ==
    /\ Searching
    /\ Cardinality(Passing) > 20
    /\ \E i \in Passing : ~Returned(icons[i])
    /\ \E k, l \in DOMAIN filteredIcons :
          Weighted(filteredIcons[k]) > Weighted(filteredIcons[l])

ShortcutKey(e) ==
    \/ e.key = "k" /\ (e.metaKey \/ e.ctrlKey)
    \/ e.key = "/" /\ e.activeTag \notin {"INPUT", "TEXTAREA"}

\* What C10 says of the three handlers it names.
C10_Handlers ==
    /\ lastEvent'.type = "keydown" =>
          /\ pushes' = pushes
          /\ IF ShortcutKey(lastEvent'.e)
             THEN internalOpen' = ~internalOpen
             ELSE internalOpen' = internalOpen
    /\ lastEvent'.type = "select" =>
          /\ internalOpen' = FALSE
          /\ Len(pushes') = Len(pushes) + 1
          /\ pushes'[Len(pushes')] = << "icons", lastEvent'.name >>
          /\ SubSeq(pushes', 1, Len(pushes)) = pushes

\* C10 as stated: in the uncontrolled component the open state changes only
\* by a shortcut keydown (which flips it) or by handleSelect (which closes
\* the dialog and pushes one route /icons/<name>).
C10_OnlyShortcutAndSelect ==
    [][ Uncontrolled =>
          /\ C10_Handlers
          /\ internalOpen' # internalOpen
                => lastEvent'.type \in {"keydown", "select"} ]_vars

\* C10 amended: the dialog's own onOpenChange is a fourth way; it closes the
\* dialog and pushes nothing.
C10_Amended ==
    [][ Uncontrolled =>
          /\ C10_Handlers
          /\ lastEvent'.type = "dismiss" =>
                internalOpen' = FALSE /\ pushes' = pushes
          /\ internalOpen' # internalOpen
                => lastEvent'.type \in {"keydown", "select", "dismiss"} ]_vars

\* handleSelect ran in the uncontrolled component.
C10_Witness ==
    /\ Uncontrolled
    /\ lastEvent.type = "select"
    /\ ~internalOpen
    /\ Len(pushes) = 1

====
